---- MODULE Spec2Model ----
(***************************************************************************)
(* FormatWave: the convert / preview / download / download-all handlers of *)
(* src/app.py, the converter registry of src/converters/__init__.py, the   *)
(* converters' file effects and the cleanup thread, over a small file      *)
(* tree.                                                                   *)
(*                                                                         *)
(* Strings are sequences of tokens.  The tokens ".", "/", "_", " " and     *)
(* "-to-" stand for themselves; every other token is a run of characters   *)
(* holding none of them, so that suffix, stem, split, strip and lower can  *)
(* be computed the way pathlib and str compute them.                       *)
(* uuid.uuid4() is modelled as a fresh value: two calls never return the   *)
(* same token.                                                             *)
(***************************************************************************)
EXTENDS Integers, Sequences, FiniteSets, TLC

(* ---------------------------- bounds ---------------------------------- *)

\* file entries with a non-empty filename in one batch
MaxNamed == 2
\* pages of an uploaded PDF
MaxPages == 2
\* steps of the clock
MaxTicks == 2

(* ------------------------ configuration ------------------------------- *)

MAX_FILE_SIZE == 50 * 1024 * 1024
MAX_FILES_PER_BATCH == 20
CLEANUP_AGE_SECONDS == 3600

BASE_DIR == << <<"srv">> >>
UPLOAD_DIR == Append(BASE_DIR, <<"uploads">>)
CONVERTED_DIR == Append(BASE_DIR, <<"converted">>)
STATIC_DIR == Append(BASE_DIR, <<"static">>)

(* --------------------------- str -------------------------------------- *)

\* str.lower() on one token
LowerTok(t) ==
    CASE t = "PDF" -> "pdf"
      [] t = "PNG" -> "png"
      [] t = "JPG" -> "jpg"
      [] t = "-TO-" -> "-to-"
      [] OTHER -> t

\* str.lower()
Lower(s) == [i \in DOMAIN s |-> LowerTok(s[i])]

RECURSIVE LStrip(_, _)
\* str.lstrip(chars) for a single character
LStrip(s, c) == IF s # <<>> /\ Head(s) = c THEN LStrip(Tail(s), c) ELSE s

RECURSIVE RStrip(_, _)
RStrip(s, c) ==
    IF s # <<>> /\ s[Len(s)] = c THEN RStrip(SubSeq(s, 1, Len(s) - 1), c) ELSE s

\* str.strip(): white space off both ends
Strip(s) == RStrip(LStrip(s, " "), " ")

RECURSIVE SplitFrom(_, _, _, _)
SplitFrom(s, sep, i, cur) ==
    IF i > Len(s) THEN <<cur>>
    ELSE IF s[i] = sep THEN <<cur>> \o SplitFrom(s, sep, i + 1, <<>>)
    ELSE SplitFrom(s, sep, i + 1, Append(cur, s[i]))

\* str.split(sep): the pieces between the separators, empty pieces kept
Split(s, sep) == SplitFrom(s, sep, 1, <<>>)

\* str.rfind(c), 1-based; 0 when c does not occur
RFind(s, c) ==
    IF \E i \in DOMAIN s : s[i] = c
    THEN CHOOSE i \in DOMAIN s : s[i] = c /\ \A j \in (i + 1)..Len(s) : s[j] # c
    ELSE 0

Range(s) == {s[i] : i \in DOMAIN s}

(* -------------------------- pathlib ----------------------------------- *)

DOT == <<".">>
DOTDOT == <<".", ".">>

\* the components of a relative path string: pathlib drops empty and "." parts
PathParts(s) == SelectSeq(Split(s, "/"), LAMBDA c : c # <<>> /\ c # DOT)

\* PurePath.name
PathName(s) == LET p == PathParts(s) IN IF p = <<>> THEN <<>> ELSE p[Len(p)]

\* PurePath.suffix: from the last dot of the name, unless the dot is first or last
PathSuffix(s) ==
    LET n == PathName(s)
        i == RFind(n, ".")
    IN  IF 1 < i /\ i < Len(n) THEN SubSeq(n, i, Len(n)) ELSE <<>>

\* PurePath.stem
PathStem(s) ==
    LET n == PathName(s)
        i == RFind(n, ".")
    IN  IF 1 < i /\ i < Len(n) THEN SubSeq(n, 1, i - 1) ELSE n

Parent(p) == IF p = <<>> THEN <<>> ELSE SubSeq(p, 1, Len(p) - 1)

(* ------------------- converters/__init__.py --------------------------- *)

None == "None"

Pair(a, b) == << <<a>>, <<b>> >>

\* the registry without its ("jpeg", "png") entry
CONVERTERS_NoJpeg ==
    ( Pair("pdf", "png")  :> "convert_pdf_to_png"  @@
      Pair("webp", "png") :> "convert_webp_to_png" @@
      Pair("png", "webp") :> "convert_png_to_webp" @@
      Pair("png", "jpg")  :> "convert_png_to_jpg"  @@
      Pair("jpg", "png")  :> "convert_jpg_to_png"  @@
      Pair("bmp", "png")  :> "convert_bmp_to_png"  @@
      Pair("tiff", "png") :> "convert_tiff_to_png" @@
      Pair("tif", "png")  :> "convert_tiff_to_png" )

\* the registry
CONVERTERS ==
    ( Pair("pdf", "png")  :> "convert_pdf_to_png"  @@
      Pair("webp", "png") :> "convert_webp_to_png" @@
      Pair("png", "webp") :> "convert_png_to_webp" @@
      Pair("png", "jpg")  :> "convert_png_to_jpg"  @@
      Pair("jpg", "png")  :> "convert_jpg_to_png"  @@
      Pair("jpeg", "png") :> "convert_jpg_to_png"  @@
      Pair("bmp", "png")  :> "convert_bmp_to_png"  @@
      Pair("tiff", "png") :> "convert_tiff_to_png" @@
      Pair("tif", "png")  :> "convert_tiff_to_png" )

\* dict.get
CONVERTERS_get(key) == IF key \in DOMAIN CONVERTERS THEN CONVERTERS[key] ELSE None

Id(a, b) == <<a, "-to-", b>>

CONVERSION_OPTIONS ==
    << [id |-> Id("pdf", "png"),  from_ext |-> << <<"pdf">> >>,              to_ext |-> <<"png">>],
       [id |-> Id("webp", "png"), from_ext |-> << <<"webp">> >>,             to_ext |-> <<"png">>],
       [id |-> Id("png", "webp"), from_ext |-> << <<"png">> >>,              to_ext |-> <<"webp">>],
       [id |-> Id("png", "jpg"),  from_ext |-> << <<"png">> >>,              to_ext |-> <<"jpg">>],
       [id |-> Id("jpg", "png"),  from_ext |-> << <<"jpg">>, <<"jpeg">> >>,  to_ext |-> <<"png">>],
       [id |-> Id("bmp", "png"),  from_ext |-> << <<"bmp">> >>,              to_ext |-> <<"png">>],
       [id |-> Id("tiff", "png"), from_ext |-> << <<"tiff">>, <<"tif">> >>,  to_ext |-> <<"png">>] >>

\* the first option with this id gives its from_ext, else the empty list
get_accepted_extensions(conversion_id) ==
    IF \E i \in DOMAIN CONVERSION_OPTIONS : CONVERSION_OPTIONS[i].id = conversion_id
    THEN CONVERSION_OPTIONS[CHOOSE i \in DOMAIN CONVERSION_OPTIONS :
                                CONVERSION_OPTIONS[i].id = conversion_id].from_ext
    ELSE <<>>

(* ----------- convert_files: the batch-level part ---------------------- *)

\* lines 97-107: the registry entry of the pair, then the alternate spelling
LookupConverter(from_format, to_format) ==
    LET converter == CONVERTERS_get(<<from_format, to_format>>)
    IN  IF converter # None THEN converter
        ELSE IF from_format = <<"jpg">> THEN CONVERTERS_get(<<(<<"jpeg">>), to_format>>)
        ELSE IF from_format = <<"tiff">> THEN CONVERTERS_get(<<(<<"tif">>), to_format>>)
        ELSE None

\* len(files) >= MAX_FILES_PER_BATCH
TooManyFilesAtLimit(nfiles) == nfiles >= MAX_FILES_PER_BATCH

\* line 117
TooManyFiles(nfiles) == nfiles > MAX_FILES_PER_BATCH

\* lines 88-118: the answer of the checks made before the session is created,
\* for a request with this conversion_id field, `named` file entries with a
\* filename and `blanks` file entries without one
BatchCheck(conversion_id_field, named, blanks) ==
    LET conversion_id == Strip(conversion_id_field)
        parts == Split(conversion_id, "-to-")
    IN  IF conversion_id = <<>> THEN "missing_conversion_id"
        ELSE IF Len(parts) # 2 THEN "invalid_conversion_id"
        ELSE IF LookupConverter(Lower(parts[1]), Lower(parts[2])) = None
             THEN "unsupported_conversion"
        ELSE IF named + blanks = 0 \/ named = 0 THEN "no_files"
        ELSE IF TooManyFiles(named + blanks) THEN "too_many_files"
        ELSE "ok"

\* the converter the request runs (defined when BatchCheck answers "ok")
ConverterOf(conversion_id_field) ==
    LET parts == Split(Strip(conversion_id_field), "-to-")
    IN  LookupConverter(Lower(parts[1]), Lower(parts[2]))

(* ------------------------- the file tree ------------------------------ *)

VARIABLES
    os,       \* the platform's path rules: "posix" or "nt"
    dirs,     \* the directories, as paths from the file system's root
    files,    \* the regular files: path -> content
    mtime,    \* last-modified time of the top-level entries of the two roots
    clock,    \* time.time()
    ticks,    \* steps the clock has made
    req,      \* the request each worker is serving
    sweeper   \* the cleanup thread

vars == <<os, dirs, files, mtime, clock, ticks, req, sweeper>>
tree == <<dirs, files, mtime>>

Workers == {"w1", "w2", "w3"}
Roots == {UPLOAD_DIR, CONVERTED_DIR}

NoPath == << <<"!">> >>

Content(kind, src) == [kind |-> kind, src |-> src, entries |-> {}, complete |-> TRUE]

RECURSIVE PosixWalk(_, _)
\* POSIX path resolution: every component is looked up in the directory
\* reached so far, so a missing intermediate directory fails the walk
PosixWalk(cur, comps) ==
    IF comps = <<>> THEN cur
    ELSE IF cur \notin dirs THEN NoPath
    ELSE IF Head(comps) = DOTDOT THEN PosixWalk(Parent(cur), Tail(comps))
    ELSE PosixWalk(Append(cur, Head(comps)), Tail(comps))

RECURSIVE LexicalWalk(_, _)
\* Win32 path normalisation: ".." removes the component before it, whether
\* or not that component exists
LexicalWalk(cur, comps) ==
    IF comps = <<>> THEN cur
    ELSE IF Head(comps) = DOTDOT THEN LexicalWalk(Parent(cur), Tail(comps))
    ELSE LexicalWalk(Append(cur, Head(comps)), Tail(comps))

\* the file a path string names, from directory `start`
Resolve(start, comps) ==
    IF os = "posix" THEN PosixWalk(start, comps) ELSE LexicalWalk(start, comps)

\* Path.exists()
Exists(p) == p # NoPath /\ (p \in dirs \/ p \in DOMAIN files)

\* Path.is_file()
IsFile(p) == p # NoPath /\ p \in DOMAIN files

IsTopLevel(p) == p # <<>> /\ Parent(p) \in Roots

\* the entries of directory d
Children(d) == {p \in dirs \cup DOMAIN files : p # <<>> /\ Parent(p) = d}


\* open(p, "wb") can create or truncate p
CanWrite(p) == p # NoPath /\ p # <<>> /\ Parent(p) \in dirs /\ p \notin dirs

Restrict(f, S) == [x \in S |-> f[x]]

StaticDirs == {<<>>, BASE_DIR, UPLOAD_DIR, CONVERTED_DIR, STATIC_DIR}
AppPy == Append(BASE_DIR, <<"app", ".", "py">>)

(* ------------------------ identifiers --------------------------------- *)

\* str(uuid.uuid4())[:12] in the request worker w serves: a fresh value, so
\* one per worker, a worker serving at most one convert request
SessionId(w) == <<"s" \o w>>

\* uuid.uuid4().hex[:8] for the i-th file of that request: fresh as well
HexPrefix(w, i) == "u" \o ToString(i) \o w

\* f"{n:03d}"
Pad3(n) ==
    IF n < 10 THEN "00" \o ToString(n)
    ELSE IF n < 100 THEN "0" \o ToString(n)
    ELSE ToString(n)

(* ---------------- file operations on a tree value --------------------- *)
(* A tree value t is [d |-> directories, f |-> files, m |-> mtimes].        *)

Tree == [d |-> dirs, f |-> files, m |-> mtime]

Stamp(t, p) ==
    IF IsTopLevel(p) /\ (p \in t.d \/ p \in DOMAIN t.f)
    THEN [t EXCEPT !.m = (p :> clock) @@ t.m]
    ELSE t

\* open(p, "wb"); write; close
WriteFile(t, p, content) ==
    Stamp(Stamp([t EXCEPT !.f = (p :> content) @@ t.f], p), Parent(p))

\* Path.unlink()
RemoveFile(t, p) ==
    Stamp([t EXCEPT !.f = Restrict(t.f, DOMAIN t.f \ {p}),
                    !.m = Restrict(t.m, DOMAIN t.m \ {p})], Parent(p))

\* Path.mkdir(parents=True, exist_ok=True), the parents being there
Mkdir(t, p) == IF p \in t.d THEN t ELSE Stamp(Stamp([t EXCEPT !.d = t.d \cup {p}], p), Parent(p))

\* what lies at or under p
Subtree(t, p) ==
    LET in == {q \in t.d \cup DOMAIN t.f : Len(q) >= Len(p) /\ SubSeq(q, 1, Len(p)) = p}
    IN  [d |-> t.d \cap in, f |-> Restrict(t.f, DOMAIN t.f \cap in)]

\* shutil.rmtree(p) that raises after it has emptied p
EmptyTree(t, p) ==
    LET gone == {q \in t.d \cup DOMAIN t.f : Len(q) > Len(p) /\ SubSeq(q, 1, Len(p)) = p}
    IN  Stamp([d |-> t.d \ gone,
               f |-> Restrict(t.f, DOMAIN t.f \ gone),
               m |-> t.m], p)

\* shutil.rmtree(p)
RemoveTree(t, p) ==
    LET gone == {q \in t.d \cup DOMAIN t.f : Len(q) >= Len(p) /\ SubSeq(q, 1, Len(p)) = p}
    IN  [d |-> t.d \ gone,
         f |-> Restrict(t.f, DOMAIN t.f \ gone),
         m |-> Restrict(t.m, DOMAIN t.m \ gone)]

SetTree(t) == dirs' = t.d /\ files' = t.f /\ mtime' = t.m

(* ------------------------- the converters ----------------------------- *)

\* the extension each image converter passes to _convert_image
TargetExt(converter) ==
    CASE converter = "convert_png_to_webp" -> <<".", "webp">>
      [] converter = "convert_png_to_jpg" -> <<".", "jpg">>
      [] OTHER -> <<".", "png">>

\* f"{stem}_page_{page_num:03d}.png": the pages numbered from 000
PageFileNameFromZero(stem, page_num) == stem \o <<"_", "page", "_", Pad3(page_num), ".", "png">>

\* pdf_converter.py line 47
PageFileName(stem, page_num) == stem \o <<"_", "page", "_", Pad3(page_num + 1), ".", "png">>

\* range(len(doc) - 1): the last page is left out
PagesSavedButLast(doc) ==
    IF ~doc.valid THEN 0
    ELSE IF doc.failPage = 0 THEN (IF doc.pages > 0 THEN doc.pages - 1 ELSE 0)
    ELSE doc.failPage - 1

\* the pages convert_pdf_to_png saves before it returns or raises
PagesSaved(doc) ==
    IF ~doc.valid THEN 0
    ELSE IF doc.failPage = 0 THEN doc.pages
    ELSE doc.failPage - 1

\* whether the converter raises on this input
Raises(doc) == ~doc.valid \/ doc.failPage # 0

\* the names of the files the converter writes into the output directory, in
\* the order it writes them
OutputNames(converter, input_path, doc) ==
    IF converter = "convert_pdf_to_png"
    THEN [k \in 1..PagesSaved(doc) |-> PageFileName(PathStem(input_path), k - 1)]
    ELSE IF doc.valid THEN <<PathStem(input_path) \o TargetExt(converter)>>
    ELSE <<>>

RECURSIVE WriteAll(_, _, _, _)
WriteAll(t, dir, names, content) ==
    IF names = <<>> THEN t
    ELSE WriteAll(WriteFile(t, Append(dir, Head(names)), content), dir, Tail(names), content)

\* the tree after converter(input_path, output_dir)
ConverterTree(t, converter, input_path, output_dir, doc, src) ==
    WriteAll(Mkdir(t, output_dir), output_dir,
             OutputNames(converter, input_path, doc), Content("output", src))

(* ----------------- convert_files: the loop over the files ------------- *)

\* line 138
FileExt(filename) == LStrip(Lower(PathSuffix(filename)), ".")

\* line 139
ExtensionRejected(accepted_exts, filename) ==
    accepted_exts # <<>> /\ FileExt(filename) \notin Range(accepted_exts)

\* line 147
SafeFilename(prefix, filename) == <<prefix, "_">> \o filename

\* line 148
UploadPath(session_upload_dir, safe_filename) ==
    Resolve(session_upload_dir, PathParts(safe_filename))

\* st_size > MAX_FILE_SIZE + 1
TooLargeAbove(size) == size > MAX_FILE_SIZE + 1

\* line 152
TooLarge(size) == size > MAX_FILE_SIZE

\* lines 164-192: one result per output path the converter returned
ResultsFor(filename, names) ==
    [k \in DOMAIN names |-> [original_name |-> filename, file_id |-> names[k]]]

\* the output files the converters' docstrings promise for an input that
\* converts: one per page of a PDF, one for an image
DocumentedOutputs(converter, doc) ==
    IF converter = "convert_pdf_to_png" THEN doc.pages ELSE 1

\* what the loop body does to the tree and the two lists for one file entry
\* with a filename: `raised` is an exception leaving the handler.  `converted`
\* counts the entries whose conversion returned, `expected` adds up their
\* documented outputs, and `seen` keeps, for each entry handled, its uuid
\* prefix and the size of its persisted copy.
FileStep(t, r, filename, size, doc) ==
    LET session_upload_dir == Append(UPLOAD_DIR, r.session_id)
        session_output_dir == Append(CONVERTED_DIR, r.session_id)
        prefix == HexPrefix(r.worker, r.idx)
        safe_filename == SafeFilename(prefix, filename)
        upload_path == UploadPath(session_upload_dir, safe_filename)
        saved == WriteFile(t, upload_path, Content("upload", prefix))
        names == OutputNames(r.converter, safe_filename, doc)
        same == [tree |-> t, results |-> r.results, errors |-> r.errors,
                 converted |-> r.converted, expected |-> r.expected, raised |-> FALSE,
                 seen |-> Append(r.seen, [prefix |-> prefix, saved |-> FALSE, st_size |-> 0])]
        kept == [same EXCEPT !.seen = Append(r.seen, [prefix |-> prefix, saved |-> TRUE,
                                                      st_size |-> size])]
    IN  IF ExtensionRejected(r.accepted_exts, filename)
        THEN [same EXCEPT !.errors = Append(@, [filename |-> filename, kind |-> "invalid_extension"])]
        ELSE IF ~CanWrite(upload_path)
        THEN [same EXCEPT !.raised = TRUE]
        ELSE IF TooLarge(size)
        THEN [kept EXCEPT !.tree = RemoveFile(saved, upload_path),
                          !.errors = Append(@, [filename |-> filename, kind |-> "too_large"])]
        ELSE IF Raises(doc)
        THEN [kept EXCEPT !.tree = ConverterTree(saved, r.converter, safe_filename,
                                                 session_output_dir, doc, prefix),
                          !.errors = Append(@, [filename |-> filename, kind |-> "conversion_failed"])]
        ELSE [kept EXCEPT !.tree = ConverterTree(saved, r.converter, safe_filename,
                                                 session_output_dir, doc, prefix),
                          !.results = @ \o ResultsFor(filename, names),
                          !.converted = @ + 1,
                          !.expected = @ + DocumentedOutputs(r.converter, doc)]

(* ----------------------------- inputs --------------------------------- *)

\* conversion_id fields that pass the batch-level checks
AcceptedIds == { Id("pdf", "png"), Id("jpeg", "png") }

\* and fields that do not
RejectedIds ==
    { <<>>, <<" ">>, <<"pdf">>, <<"pdf", "-TO-", "png">>,
      <<"a", "-to-", "b", "-to-", "c">>, Id("xyz", "abc"), Id("jpg", "webp") }

Traversal == <<"x", "/", ".", ".", "/", ".", ".", "/", "a", ".", "pdf">>

FileNames ==
    { <<"a", ".", "pdf">>, <<"a", ".", "txt">>, <<"d", "/", "a", ".", "pdf">>, Traversal }

FileSizes == {MAX_FILE_SIZE, MAX_FILE_SIZE + 1}

OnePage == [valid |-> TRUE, pages |-> 1, failPage |-> 0]

Docs ==
    {[valid |-> FALSE, pages |-> 0, failPage |-> 0]} \cup
    {[valid |-> TRUE, pages |-> n, failPage |-> k] : n \in 0..MaxPages, k \in 0..MaxPages}

\* the numbers of file entries without a filename that a batch is tried with:
\* none, and what fills the batch up to the maximum plus each of `pads`
BlankCounts(named, pads) == {0} \cup {MAX_FILES_PER_BATCH - named + k : k \in pads}

\* every pair of these sources and targets, as a conversion_id field
LookupIds ==
    { Id(a, b) : a \in {"pdf", "webp", "png", "jpg", "jpeg", "bmp", "tiff", "tif", "xyz", "JPG"},
                 b \in {"png", "webp", "jpg", "abc"} }

\* the jpg and tiff families
SynonymIds ==
    { Id(a, b) : a \in {"jpg", "jpeg", "tiff", "tif"}, b \in {"png", "webp"} }

\* what the requests of a specification are drawn from
FullInputs ==
    [ids |-> AcceptedIds \cup RejectedIds, counts |-> 0..MaxNamed, pads |-> {0, 1},
     names |-> FileNames, sizes |-> FileSizes, docs |-> Docs]

(* ------------------------- convert_files ------------------------------ *)

Idle(w) == req[w].pc = "idle"
Free(w) == req[w].pc \in {"idle", "done"}

Answer(op, code) == [pc |-> "done", op |-> op, code |-> code]

\* lines 88-128: the checks, then the session's two directories
BeginConvert(w, in) ==
    /\ Idle(w)
    /\ \E field \in in.ids, named \in in.counts :
         \E blanks \in BlankCounts(named, in.pads) :
           LET answer == BatchCheck(field, named, blanks)
               session_id == SessionId(w)
               made == Mkdir(Mkdir(Tree, Append(UPLOAD_DIR, session_id)),
                             Append(CONVERTED_DIR, session_id))
           IN  IF answer # "ok"
               THEN /\ req' = [req EXCEPT ![w] =
                                 Answer("convert", 400) @@
                                 [error |-> answer, conversion_id |-> Strip(field),
                                  nfiles |-> named + blanks, named |-> named]]
                    /\ UNCHANGED tree
               ELSE /\ SetTree(made)
                    /\ req' = [req EXCEPT ![w] =
                                 [pc |-> "conv", op |-> "convert", worker |-> w,
                                  conversion_id |-> Strip(field),
                                  session_id |-> session_id,
                                  converter |-> ConverterOf(field),
                                  accepted_exts |-> get_accepted_extensions(Strip(field)),
                                  nfiles |-> named + blanks, named |-> named, idx |-> 1,
                                  results |-> <<>>, errors |-> <<>>, converted |-> 0,
                                  expected |-> 0,
                                  seen |-> <<>>]]
    /\ UNCHANGED <<os, clock, ticks, sweeper>>

\* lines 133-207: one turn of the loop; after the last one, the response
ConvertFile(w, in) ==
    /\ req[w].pc = "conv"
    /\ \E filename \in in.names, size \in in.sizes, doc \in in.docs :
         LET r == req[w]
             s == FileStep(Tree, r, filename, size, doc)
             after == [r EXCEPT !.results = s.results, !.errors = s.errors,
                                !.converted = s.converted, !.expected = s.expected,
                                !.seen = s.seen]
         IN  /\ SetTree(s.tree)
             /\ req' = [req EXCEPT ![w] =
                          IF s.raised THEN [after EXCEPT !.pc = "done"] @@ [code |-> 500]
                          ELSE IF r.idx = r.named THEN [after EXCEPT !.pc = "done"] @@ [code |-> 200]
                          ELSE [after EXCEPT !.idx = @ + 1]]
    /\ UNCHANGED <<os, clock, ticks, sweeper>>

(* --------------------- preview_file, download_file -------------------- *)

\* CONVERTED_DIR / session_id / filename
FilePath(session_id, filename) ==
    Resolve(CONVERTED_DIR, PathParts(session_id) \o PathParts(filename))

\* lines 213-216 and 222-225: 404 unless the path exists; send_file raises on
\* a directory
Serve(op, session_id, filename) ==
    LET file_path == FilePath(session_id, filename)
    IN  IF ~Exists(file_path)
        THEN Answer(op, 404) @@ [session_id |-> session_id, filename |-> filename,
                                 served |-> NoPath]
        ELSE IF IsFile(file_path)
        THEN Answer(op, 200) @@ [session_id |-> session_id, filename |-> filename,
                                 served |-> file_path]
        ELSE Answer(op, 500) @@ [session_id |-> session_id, filename |-> filename,
                                 served |-> NoPath]

preview_file(w, sids, names) ==
    /\ Free(w)
    /\ \E session_id \in sids, filename \in names :
         req' = [req EXCEPT ![w] = Serve("preview", session_id, filename)]
    /\ UNCHANGED <<os, tree, clock, ticks, sweeper>>

download_file(w, sids, names) ==
    /\ Free(w)
    /\ \E session_id \in sids, filename \in names :
         req' = [req EXCEPT ![w] = Serve("download", session_id, filename)]
    /\ UNCHANGED <<os, tree, clock, ticks, sweeper>>

(* --------------------------- download_all ----------------------------- *)

\* line 236
ZipFilename(session_id) == <<"FormatWave", "_">> \o session_id \o <<".", "zip">>

\* session_dir / zip_filename: the archive inside the directory it packs
ZipPathInSession(session_id) ==
    Resolve(CONVERTED_DIR, PathParts(session_id) \o PathParts(ZipFilename(session_id)))

\* line 237
ZipPath(session_id) == Resolve(CONVERTED_DIR, PathParts(ZipFilename(session_id)))

\* lines 241-243: the entries written for the directory's files, flat
ZipEntries(session_dir) ==
    {[name |-> p[Len(p)], src |-> files[p].src] : p \in {q \in Children(session_dir) : IsFile(q)}}

\* lines 231-240: 404 for a missing directory, else the archive file is
\* created, or truncated if it is there
DlOpen(w, sids) ==
    /\ Free(w)
    /\ \E session_id \in sids :
         LET session_dir == Resolve(CONVERTED_DIR, PathParts(session_id))
             zip_path == ZipPath(session_id)
         IN  IF ~Exists(session_dir)
             THEN /\ req' = [req EXCEPT ![w] =
                               Answer("download_all", 404) @@ [session_id |-> session_id]]
                  /\ UNCHANGED tree
             ELSE /\ SetTree(WriteFile(Tree, zip_path,
                                       [Content("zip", "") EXCEPT !.complete = FALSE]))
                  /\ req' = [req EXCEPT ![w] =
                               [pc |-> "dl_write", op |-> "download_all",
                                session_id |-> session_id, session_dir |-> session_dir,
                                zip_path |-> zip_path]]
    /\ UNCHANGED <<os, clock, ticks, sweeper>>

\* lines 240-243: the directory is listed and every file of it written, then
\* the archive is closed; a directory that cannot be listed raises, which
\* closes the archive and answers 500.  An archive file unlinked meanwhile is
\* written through the open handle and stays unlinked.
DlWrite(w) ==
    /\ req[w].pc = "dl_write"
    /\ LET r == req[w]
           listed == r.session_dir \in dirs
           entries == IF listed THEN ZipEntries(r.session_dir) ELSE {}
           closed == [Content("zip", "") EXCEPT !.entries = entries]
       IN  /\ IF IsFile(r.zip_path)
              THEN SetTree(WriteFile(Tree, r.zip_path, closed))
              ELSE UNCHANGED tree
           /\ req' = [req EXCEPT ![w] =
                        IF listed
                        THEN [r EXCEPT !.pc = "dl_send"] @@ [built |-> entries]
                        ELSE Answer("download_all", 500) @@ [session_id |-> r.session_id]]
    /\ UNCHANGED <<os, clock, ticks, sweeper>>

\* line 245: send_file reads the archive file that is on disk now
DlSend(w) ==
    /\ req[w].pc = "dl_send"
    /\ LET r == req[w]
       IN  req' = [req EXCEPT ![w] =
                     IF IsFile(r.zip_path)
                     THEN Answer("download_all", 200) @@
                          [session_id |-> r.session_id, built |-> r.built,
                           body |-> files[r.zip_path]]
                     ELSE Answer("download_all", 500) @@ [session_id |-> r.session_id]]
    /\ UNCHANGED <<os, tree, clock, ticks, sweeper>>

(* ----------------------------- time ----------------------------------- *)

Tick ==
    /\ ticks < MaxTicks
    /\ \E d \in {1, CLEANUP_AGE_SECONDS} : clock' = clock + d
    /\ ticks' = ticks + 1
    /\ UNCHANGED <<os, tree, req, sweeper>>

(* ------------------------ cleanup_old_files --------------------------- *)

\* age >= CLEANUP_AGE_SECONDS
ExpiredAtThreshold(age) == age >= CLEANUP_AGE_SECONDS

\* line 52
Expired(age) == age > CLEANUP_AGE_SECONDS

\* what the environment can do to one sweep step: nothing, fail the stat,
\* fail the deletion at once, or fail it after the entry has been emptied
Faults == {"none", "stat", "delete", "delete_late"}

TopLevel(t) == {p \in t.d \cup DOMAIN t.f : IsTopLevel(p)}

\* lines 44-45: the sleep ends and the sweep takes its time stamp.  `old` and
\* `young` keep what was older and what was newer than the threshold then.
SweepWake ==
    /\ sweeper.pc = "sleep"
    /\ sweeper' = [pc |-> "scan", now |-> clock,
                   todo |-> <<UPLOAD_DIR, CONVERTED_DIR>>, items |-> {},
                   last |-> [item |-> NoPath, age |-> 0, error |-> "none"],
                   old |-> {p \in TopLevel(Tree) : clock - mtime[p] > CLEANUP_AGE_SECONDS},
                   young |-> [p \in {q \in TopLevel(Tree) :
                                        clock - mtime[q] < CLEANUP_AGE_SECONDS}
                                |-> Subtree(Tree, p)]]
    /\ UNCHANGED <<os, tree, clock, ticks, req>>

\* lines 46-49: the next root is listed; an error raised by the listing is
\* caught nowhere and ends the thread.  After the last root the thread sleeps.
SweepList ==
    /\ sweeper.pc = "scan"
    /\ sweeper.items = {}
    /\ IF sweeper.todo = <<>>
       THEN sweeper' = [pc |-> "sleep"]
       ELSE LET directory == Head(sweeper.todo)
            IN  IF directory \notin dirs
                THEN sweeper' = [sweeper EXCEPT !.todo = Tail(@)]
                ELSE \E raised \in BOOLEAN :
                       sweeper' = IF raised THEN [pc |-> "dead"]
                                  ELSE [sweeper EXCEPT !.todo = Tail(@),
                                                       !.items = Children(directory)]
    /\ UNCHANGED <<os, tree, clock, ticks, req>>

\* lines 50-58: one listed entry is examined and, if expired, deleted; what
\* is raised is swallowed.  `last` keeps the entry, the age found and the error.
SweepItem ==
    /\ sweeper.pc = "scan"
    /\ sweeper.items # {}
    /\ \E item \in sweeper.items, fault \in Faults :
         LET gone == item \notin DOMAIN mtime
             age == IF gone THEN 0 ELSE sweeper.now - mtime[item]
             error == IF gone \/ fault = "stat" THEN "stat"
                      ELSE IF Expired(age) /\ fault # "none" THEN "delete"
                      ELSE "none"
             after == IF gone \/ fault = "stat" \/ ~Expired(age) \/ fault = "delete" THEN Tree
                      ELSE IF item \in dirs
                      THEN (IF fault = "delete_late" THEN EmptyTree(Tree, item)
                            ELSE RemoveTree(Tree, item))
                      ELSE IF fault = "delete_late" THEN Tree
                      ELSE RemoveFile(Tree, item)
         IN  /\ SetTree(after)
             /\ sweeper' = [sweeper EXCEPT !.items = @ \ {item},
                                           !.last = [item |-> item, age |-> age,
                                                     error |-> error]]
    /\ UNCHANGED <<os, clock, ticks, req>>

(* ------------------------------ Spec ---------------------------------- *)

Init ==
    /\ os \in {"posix", "nt"}
    /\ dirs = StaticDirs
    /\ files = (AppPy :> Content("static", ""))
    /\ mtime = [p \in {} |-> 0]
    /\ clock = 0
    /\ ticks = 0
    /\ req = [w \in Workers |-> [pc |-> "idle"]]
    /\ sweeper = [pc |-> "sleep"]

\* one convert request with every kind of input
Next ==
    \/ BeginConvert("w1", FullInputs)
    \/ ConvertFile("w1", FullInputs)

Spec == Init /\ [][Next]_vars

\* the batch-level part of two convert requests, over every pair of formats
NextLookup ==
    \/ BeginConvert("w1", [FullInputs EXCEPT !.ids = LookupIds, !.pads = {}])
    \/ BeginConvert("w2", [FullInputs EXCEPT !.ids = SynonymIds, !.pads = {}])

SpecLookup == Init /\ [][NextLookup]_vars

\* what the request of SpecSweep is drawn from: one-page PDFs of either size
SweepInputs ==
    [ids |-> {Id("pdf", "png")}, counts |-> {1, 2}, pads |-> {},
     names |-> {<<"a", ".", "pdf">>}, sizes |-> FileSizes, docs |-> {OnePage}]

\* the cleanup thread beside a convert request, while time passes
NextSweep ==
    \/ BeginConvert("w1", SweepInputs)
    \/ ConvertFile("w1", SweepInputs)
    \/ Tick
    \/ SweepWake
    \/ SweepList
    \/ SweepItem

InitPosix == Init /\ os = "posix"

SpecSweep == InitPosix /\ [][NextSweep]_vars

\* what the request of SpecArchive is drawn from: PDFs of either size whose
\* pages all render
ArchiveInputs ==
    [ids |-> {Id("pdf", "png")}, counts |-> {1, 2}, pads |-> {},
     names |-> {<<"a", ".", "pdf">>}, sizes |-> FileSizes,
     docs |-> {[valid |-> TRUE, pages |-> n, failPage |-> 0] : n \in 1..MaxPages}]

\* the session of the convert request and one that no request created
ArchiveSessions == {SessionId("w1"), SessionId("w3")}

\* a convert request beside download-all requests, one after the other
NextArchive ==
    \/ BeginConvert("w1", ArchiveInputs)
    \/ ConvertFile("w1", ArchiveInputs)
    \/ DlOpen("w2", ArchiveSessions)
    \/ DlWrite("w2")
    \/ DlSend("w2")

SpecArchive == Init /\ [][NextArchive]_vars

\* what the requests of SpecSessions are drawn from: one-page PDFs under a
\* plain name and under one with directory-escape components
SessionInputs ==
    [ids |-> {Id("pdf", "png")}, counts |-> 1..MaxNamed, pads |-> {},
     names |-> {<<"a", ".", "pdf">>, Traversal}, sizes |-> {MAX_FILE_SIZE},
     docs |-> {OnePage}]

\* two convert requests side by side
NextSessions ==
    \/ BeginConvert("w1", SessionInputs)
    \/ ConvertFile("w1", SessionInputs)
    \/ BeginConvert("w2", SessionInputs)
    \/ ConvertFile("w2", SessionInputs)

SpecSessions == Init /\ [][NextSessions]_vars

\* the session_id and filename segments the two file routes are tried with
ServeSessions == {SessionId("w1"), SessionId("w3"), DOT, DOTDOT}

ServeNames ==
    {PageFileName(<<HexPrefix("w1", 1), "_", "a">>, 0), <<"app", ".", "py">>,
     ZipFilename(SessionId("w1")), DOTDOT, <<"b", ".", "png">>}

\* a convert request and a download-all for it beside the two file routes
NextServe ==
    \/ BeginConvert("w1", SweepInputs)
    \/ ConvertFile("w1", SweepInputs)
    \/ DlOpen("w1", {SessionId("w1")})
    \/ DlWrite("w1")
    \/ DlSend("w1")
    \/ preview_file("w2", ServeSessions, ServeNames)
    \/ download_file("w3", ServeSessions, ServeNames)

SpecServe == Init /\ [][NextServe]_vars

\* what the requests of SpecPdf are drawn from: one PDF of any page count,
\* unreadable or failing at some page or rendering to the end
PdfInputs ==
    [ids |-> {Id("pdf", "png")}, counts |-> {1}, pads |-> {},
     names |-> {<<"a", ".", "pdf">>, <<"a", ".", "b", ".", "pdf">>},
     sizes |-> {MAX_FILE_SIZE}, docs |-> Docs]

\* two requests, each passing one PDF to convert_pdf_to_png
NextPdf ==
    \/ BeginConvert("w1", PdfInputs)
    \/ ConvertFile("w1", PdfInputs)
    \/ BeginConvert("w2", PdfInputs)
    \/ ConvertFile("w2", PdfInputs)

SpecPdf == Init /\ [][NextPdf]_vars

\* what the request of SpecAllow is drawn from: ids the registry resolves,
\* spelled as the options list spells them, as a synonym, or in upper case,
\* and files with and without the conversion's source extension
AllowInputs ==
    [ids |-> {Id("pdf", "png"), Id("PDF", "png"), Id("jpg", "png"), Id("jpeg", "png"),
              Id("tif", "png")},
     counts |-> {1, 2}, pads |-> {},
     names |-> {<<"a", ".", "pdf">>, <<"a", ".", "txt">>, <<"a", ".", "jpeg">>},
     sizes |-> {MAX_FILE_SIZE},
     docs |-> {OnePage, [valid |-> FALSE, pages |-> 0, failPage |-> 0]}]

NextAllow ==
    \/ BeginConvert("w1", AllowInputs)
    \/ ConvertFile("w1", AllowInputs)

SpecAllow == Init /\ [][NextAllow]_vars

\* what the convert request of SpecZip is drawn from: one-page PDFs that convert
ZipInputs ==
    [ids |-> {Id("pdf", "png")}, counts |-> {1, 2}, pads |-> {},
     names |-> {<<"a", ".", "pdf">>}, sizes |-> {MAX_FILE_SIZE}, docs |-> {OnePage}]

\* a convert request, and two workers serving download-all for its session
\* at the same time
NextZip ==
    \/ BeginConvert("w1", ZipInputs)
    \/ ConvertFile("w1", ZipInputs)
    \/ DlOpen("w2", {SessionId("w1")})
    \/ DlWrite("w2")
    \/ DlSend("w2")
    \/ DlOpen("w3", {SessionId("w1")})
    \/ DlWrite("w3")
    \/ DlSend("w3")

SpecZip == Init /\ [][NextZip]_vars

(* ======================= the claims, under Spec ======================= *)

IsConvert(w) == req[w].pc # "idle" /\ req[w].op = "convert"
Rejected(w) == IsConvert(w) /\ req[w].pc = "done" /\ req[w].code = 400
Accepted(w) == IsConvert(w) /\ ~Rejected(w)
\* the request has answered with its BatchResult
Returned(w) == IsConvert(w) /\ req[w].pc = "done" /\ req[w].code = 200

InitialTree ==
    /\ dirs = StaticDirs
    /\ DOMAIN files = {AppPy}
    /\ DOMAIN mtime = {}

\* C1, as the spec states it: in every returned BatchResult the results and
\* the errors together number the file entries that have a filename.
C1_Original ==
    \A w \in Workers :
        Returned(w) => Len(req[w].results) + Len(req[w].errors) = req[w].named

\* C1, amended: in every returned BatchResult the errors and the inputs that
\* converted together number the file entries that have a filename, and the
\* results number the output files of the inputs that converted: one for an
\* image, one per page for a PDF.
C1_Amended ==
    \A w \in Workers :
        Returned(w) =>
            /\ Len(req[w].errors) + req[w].converted = req[w].named
            /\ Len(req[w].results) = req[w].expected
            /\ req[w].converter # "convert_pdf_to_png"
                  => Len(req[w].results) + Len(req[w].errors) = req[w].named

\* a returned pdf-to-png batch of two entries: one failed, the other gave two pages
C1_Witness ==
    \E w \in Workers :
        /\ Returned(w)
        /\ req[w].converter = "convert_pdf_to_png"
        /\ req[w].named = 2
        /\ Len(req[w].errors) = 1
        /\ Len(req[w].results) = 2

\* C2: no failure on one file aborts the batch: a request that got past the
\* batch-level checks answers with its BatchResult, every file entry with a
\* filename having been handled.
C2_NeverAborts ==
    \A w \in Workers :
        (Accepted(w) /\ req[w].pc = "done") =>
            /\ req[w].code = 200
            /\ Len(req[w].seen) = req[w].named

\* C3: a request rejected at batch level is rejected for one of the stated
\* reasons, has handled no file and has left the file tree as it was; it is
\* rejected as too many only above MAX_FILES_PER_BATCH entries, and a request
\* that is not rejected has a well-formed id, a filename and at most
\* MAX_FILES_PER_BATCH entries.
C3_BatchRejection ==
    \A w \in Workers :
        /\ Rejected(w) =>
              /\ InitialTree
              /\ req[w].error \in {"missing_conversion_id", "invalid_conversion_id",
                                    "unsupported_conversion", "no_files", "too_many_files"}
              /\ req[w].error = "too_many_files" => req[w].nfiles > MAX_FILES_PER_BATCH
        /\ Accepted(w) =>
              /\ req[w].nfiles <= MAX_FILES_PER_BATCH
              /\ req[w].named >= 1
              /\ Len(Split(req[w].conversion_id, "-to-")) = 2
              /\ req[w].converter # None
              /\ Append(UPLOAD_DIR, req[w].session_id) \in dirs

\* a batch of MAX_FILES_PER_BATCH + 1 entries was rejected as too many
C3_Witness ==
    \E w \in Workers :
        /\ Rejected(w)
        /\ req[w].error = "too_many_files"
        /\ req[w].nfiles = MAX_FILES_PER_BATCH + 1

(* ==================== the claims, under SpecLookup ==================== *)

\* the identifiers the service lists, and their synonym spellings
SupportedIds ==
    {CONVERSION_OPTIONS[i].id : i \in DOMAIN CONVERSION_OPTIONS}
        \cup {Id("jpeg", "png"), Id("tif", "png")}

SourceOf(w) == Lower(Split(req[w].conversion_id, "-to-")[1])
TargetOf(w) == Lower(Split(req[w].conversion_id, "-to-")[2])

Spellings(f) ==
    IF f \in {<<"jpg">>, <<"jpeg">>} THEN {<<"jpg">>, <<"jpeg">>}
    ELSE IF f \in {<<"tiff">>, <<"tif">>} THEN {<<"tiff">>, <<"tif">>}
    ELSE {f}

\* C4: a request with a filename whose id is a supported identifier or a
\* synonym spelling of one gets a converter; two requests whose sources are
\* spellings of one format get the same converter for the same target; and a
\* pair that has no registry entry under any spelling is answered 400,
\* unsupported conversion.
C4_Lookup ==
    \A w \in Workers :
        IsConvert(w) =>
            /\ (req[w].conversion_id \in SupportedIds /\ req[w].named >= 1)
                  => (Accepted(w) /\ req[w].converter # None)
            /\ \A v \in Workers :
                  (Accepted(w) /\ IsConvert(v) /\ Accepted(v)
                     /\ SourceOf(v) \in Spellings(SourceOf(w)) /\ TargetOf(v) = TargetOf(w))
                  => req[v].converter = req[w].converter
            /\ (\A f \in Spellings(SourceOf(w)) : <<f, TargetOf(w)>> \notin DOMAIN CONVERTERS)
                  => (Rejected(w) /\ req[w].error = "unsupported_conversion")

\* jpg-to-png and jpeg-to-png were both accepted, and xyz-to-abc would not be
C4_Witness ==
    /\ IsConvert("w1") /\ Accepted("w1") /\ req["w1"].conversion_id = Id("jpg", "png")
    /\ IsConvert("w2") /\ Accepted("w2") /\ req["w2"].conversion_id = Id("jpeg", "png")
    /\ BatchCheck(Id("xyz", "abc"), 1, 0) = "unsupported_conversion"

(* ===================== the claims, under SpecSweep ==================== *)

AllEntries == dirs \cup DOMAIN files

SubtreeNow(p) == Subtree(Tree, p)

SubtreeNext(p) == Subtree([d |-> dirs', f |-> files', m |-> mtime'], p)

\* the step of the cleanup thread that examines one listed entry
SweepExamines == sweeper.pc = "scan" /\ sweeper.items # {} /\ sweeper'.items # sweeper.items

\* the entry that step examines
Examined == CHOOSE item \in sweeper.items : item \notin sweeper'.items

\* the step that ends a sweep cycle
SweepCompletes == sweeper.pc = "scan" /\ sweeper'.pc = "sleep"

\* C5 as stated: when a sweep cycle ends, every top-level entry of the two
\* roots that was older than CLEANUP_AGE_SECONDS when the sweep started is
\* absent, and every entry that was newer is present with its contents as
\* they were.
C5_Original ==
    [][SweepCompletes =>
         /\ \A p \in sweeper.old : p \notin AllEntries'
         /\ \A p \in DOMAIN sweeper.young : SubtreeNext(p) = sweeper.young[p]]_vars

\* C5 amended: every step of the cleanup thread either changes nothing on
\* disk or is the examination of one listed entry.  With the entry's age
\* taken as the sweep's start time minus its last-modified time at that
\* moment: if the age is greater than CLEANUP_AGE_SECONDS and neither the
\* stat nor the deletion raises, the entry and all under it are gone after
\* the step and nothing else has changed; if the age is not greater, or the
\* stat raises, nothing has changed; if the deletion raises, the entry is
\* still there and every other entry is unchanged.
C5_Amended ==
    [][sweeper' # sweeper =>
         IF ~SweepExamines THEN tree' = tree
         ELSE LET item == Examined
                  error == sweeper'.last.error
                  others == TopLevel(Tree) \ {item}
              IN  /\ sweeper'.last.item = item
                  /\ \A p \in others : SubtreeNext(p) = SubtreeNow(p) /\ mtime'[p] = mtime[p]
                  /\ IF item \notin DOMAIN mtime \/ error = "stat"
                     THEN tree' = tree
                     ELSE LET age == sweeper.now - mtime[item]
                          IN  /\ sweeper'.last.age = age
                              /\ age > CLEANUP_AGE_SECONDS /\ error = "none"
                                   => SubtreeNext(item) = [d |-> {}, f |-> <<>>]
                              /\ age > CLEANUP_AGE_SECONDS /\ error = "delete"
                                   => item \in AllEntries'
                              /\ age <= CLEANUP_AGE_SECONDS
                                   => tree' = tree /\ error = "none"]_vars

\* C5 witness: a sweep has left alone an entry that was newer than the
\* threshold and has just deleted one that was older
C5_Witness ==
    /\ sweeper.pc = "scan"
    /\ sweeper.last.error = "none"
    /\ sweeper.last.age > CLEANUP_AGE_SECONDS
    /\ sweeper.last.item \in sweeper.old
    /\ sweeper.last.item \notin AllEntries
    /\ \E p \in DOMAIN sweeper.young :
         /\ p \notin sweeper.items
         /\ Parent(p) \notin Range(sweeper.todo)
         /\ SubtreeNow(p) = sweeper.young[p]
         /\ SubtreeNow(p).f # <<>>

\* C6 as stated: no error raised during a sweep - a failed stat or deletion
\* of one entry, or a failed listing of a root - ends the cleanup thread, and
\* after a failed deletion the other listed entries are still to be examined.
C6_SweeperNeverTerminates ==
    [][/\ sweeper'.pc # "dead"
       /\ SweepExamines /\ sweeper'.last.error # "none"
            => sweeper'.pc = "scan" /\ sweeper'.items = sweeper.items \ {Examined}]_vars


(* ==================== the claims, under SpecArchive =================== *)

IsDownloadAll(w) == req[w].pc # "idle" /\ req[w].op = "download_all"

\* the files directly inside the output directory of a session
OutputFiles(session_id) ==
    {f \in DOMAIN files : Parent(f) = Append(CONVERTED_DIR, session_id)}

\* C7: download_all for a session whose output directory is missing answers
\* 404 and changes nothing on disk; for an existing session it writes, beside
\* the output directory and never inside it, an archive with exactly one
\* entry per file that is directly inside the directory at that moment, named
\* by the file's bare name; none of those files is an archive, so however
\* often it is invoked no archive becomes an entry of a later one; and the
\* archive it sends has those entries.
C7_Archive ==
    [][\A w \in Workers :
         /\ Free(w) /\ req'[w] # req[w] /\ req'[w].op = "download_all"
              => IF Append(CONVERTED_DIR, req'[w].session_id) \in dirs
                 THEN req'[w].pc = "dl_write"
                 ELSE req'[w].pc = "done" /\ req'[w].code = 404 /\ tree' = tree
         /\ IsDownloadAll(w) /\ req[w].pc = "dl_write" /\ req'[w] # req[w]
              => LET inside == OutputFiles(req[w].session_id)
                     zip_path == Append(CONVERTED_DIR, ZipFilename(req[w].session_id))
                 IN  /\ req'[w].pc = "dl_send"
                     /\ zip_path \in DOMAIN files' /\ zip_path \notin inside
                     /\ \A f \in inside : files[f].kind # "zip"
                     /\ {e.name : e \in files'[zip_path].entries} = {f[Len(f)] : f \in inside}
                     /\ Cardinality(files'[zip_path].entries) = Cardinality(inside)
                     /\ req'[w].built = files'[zip_path].entries
                     /\ \A f \in DOMAIN files : f # zip_path => f \in DOMAIN files' /\ files'[f] = files[f]
         /\ IsDownloadAll(w) /\ req[w].pc = "dl_send" /\ req'[w] # req[w]
              => /\ req'[w].code = 200
                 /\ req'[w].body.complete
                 /\ req'[w].body.entries = req[w].built]_vars

\* C7 witness: a download-all has sent an archive of the two or more files of
\* the session's output directory, and the archive lies beside the directory
C7_Witness ==
    \E w \in Workers :
        /\ IsDownloadAll(w) /\ req[w].pc = "done" /\ req[w].code = 200
        /\ Cardinality(req[w].built) >= 2
        /\ {e.name : e \in req[w].body.entries} = {f[Len(f)] : f \in OutputFiles(req[w].session_id)}
        /\ Append(CONVERTED_DIR, ZipFilename(req[w].session_id)) \in DOMAIN files

\* the file entries of a convert request whose persisted copy was oversized
Oversized(r) ==
    {i \in DOMAIN r.seen : r.seen[i].saved /\ r.seen[i].st_size > MAX_FILE_SIZE}

\* C8: for every file entry of a convert request whose persisted copy is
\* larger than MAX_FILE_SIZE, no file on disk comes from it - neither the
\* copy in the upload directory nor any output - no result names an output of
\* it, no archive on disk or sent has an entry from it, and the errors hold
\* one file-too-large entry for each such file.
C8_Oversize ==
    \A w \in Workers :
        IsConvert(w) /\ "seen" \in DOMAIN req[w] =>
            LET r == req[w]
            IN  /\ \A i \in Oversized(r) :
                     LET prefix == r.seen[i].prefix
                     IN  /\ \A f \in DOMAIN files :
                               /\ files[f].src # prefix
                               /\ \A e \in files[f].entries : e.src # prefix
                         /\ \A k \in DOMAIN r.results : r.results[k].file_id[1] # prefix
                         /\ \A v \in Workers :
                               IsDownloadAll(v) /\ "built" \in DOMAIN req[v]
                                 => \A e \in req[v].built : e.src # prefix
                /\ Cardinality({k \in DOMAIN r.errors : r.errors[k].kind = "too_large"})
                     = Cardinality(Oversized(r))

\* C8 witness: a batch of an oversized file and one that converted has
\* returned, and an archive of its session has been sent
C8_Witness ==
    \E w, v \in Workers :
        /\ Returned(w)
        /\ Cardinality(Oversized(req[w])) = 1
        /\ Len(req[w].errors) = 1
        /\ Len(req[w].results) >= 1
        /\ Children(Append(UPLOAD_DIR, req[w].session_id)) # {}
        /\ IsDownloadAll(v) /\ req[v].pc = "done" /\ req[v].code = 200
        /\ req[v].session_id = req[w].session_id
        /\ Cardinality(req[v].body.entries) = Len(req[w].results)

(* =================== the claims, under SpecSessions =================== *)

\* the two directories of the session of the request worker w serves
SessionDirs(w) == {Append(UPLOAD_DIR, SessionId(w)), Append(CONVERTED_DIR, SessionId(w))}

\* C9 as stated: at every point of every interleaving of convert requests,
\* the directories of distinct sessions are distinct, and every file that an
\* upload or a conversion step has written lies directly inside a directory
\* of the session of the request that wrote it.
C9_Isolation ==
    /\ \A w, v \in Workers : w # v => SessionDirs(w) \cap SessionDirs(v) = {}
    /\ \A f \in DOMAIN files :
         files[f].kind \in {"upload", "output"} =>
             \E w \in Workers :
                 /\ \E i \in 1..MaxNamed : files[f].src = HexPrefix(w, i)
                 /\ Parent(f) \in SessionDirs(w)

(* ===================== the claims, under SpecServe ==================== *)

IsServe(w) == req[w].pc = "done" /\ req[w].op \in {"preview", "download"}

\* C10 as stated: preview_file and download_file answer 200 only with the
\* file CONVERTED_DIR/session_id/filename, session_id naming a directory
\* directly under the converted root and filename a file directly inside it;
\* every other pair, directory-escape components included, is answered 404.
C10_OnlySessionFiles ==
    \A w \in Workers :
        IsServe(w) =>
            IF req[w].code = 200
            THEN /\ req[w].session_id \notin {DOT, DOTDOT}
                 /\ req[w].filename \notin {DOT, DOTDOT}
                 /\ req[w].served = CONVERTED_DIR \o <<req[w].session_id, req[w].filename>>
            ELSE req[w].code = 404


(* ====================== the claims, under SpecPdf ===================== *)

\* page numbers as three-digit strings, written out
ThreeDigits == <<"001", "002", "003", "004">>

\* C11: when convert_pdf_to_png has rendered a document of D pages without
\* error, the request that passed it that one document has exactly D results;
\* the i-th, for i from 1 to D, is named {stem}_page_{i as three digits}.png,
\* stem being the stem of the uploaded copy, and a file of that name lies in
\* the session's output directory - so the list is in page order from 001.
C11_Pages ==
    \A w \in Workers :
        Returned(w) /\ req[w].converter = "convert_pdf_to_png" /\ req[w].converted = 1 =>
            LET r == req[w]
                D == r.expected
            IN   /\ Len(r.results) = D
                /\ \A i \in 1..D :
                     /\ r.results[i].file_id =
                            <<r.seen[1].prefix, "_">> \o
                            SubSeq(r.results[i].original_name, 1,
                                   Len(r.results[i].original_name) - 2) \o
                            <<"_", "page", "_", ThreeDigits[i], ".", "png">>
                     /\ Append(Append(CONVERTED_DIR, r.session_id), r.results[i].file_id)
                            \in DOMAIN files

\* C11 witness: a document of MaxPages pages, at least two, whose name has a
\* dot in its stem has been rendered to the end
C11_Witness ==
    \E w \in Workers :
        /\ Returned(w) /\ req[w].converter = "convert_pdf_to_png" /\ req[w].converted = 1
        /\ req[w].expected = MaxPages /\ MaxPages >= 2
        /\ Len(req[w].results) = MaxPages
        /\ req[w].results[1].original_name = <<"a", ".", "b", ".", "pdf">>

\* C13 as stated: once a convert request has returned, every file in its
\* session's output directory is the file_id of exactly one entry of its
\* results, so an input reported in errors has left no file there (nor, the
\* archive being made of the files there, in the archive).
C13_OutputsAreResults ==
    \A w \in Workers :
        Returned(w) =>
            \A f \in OutputFiles(req[w].session_id) :
                Cardinality({k \in DOMAIN req[w].results :
                                req[w].results[k].file_id = f[Len(f)]}) = 1

(* ===================== the claims, under SpecAllow ==================== *)

\* the source extensions of the conversion a converter performs
SourceExtensions(converter) ==
    CASE converter = "convert_pdf_to_png" -> {<<"pdf">>}
      [] converter = "convert_jpg_to_png" -> {<<"jpg">>, <<"jpeg">>}
      [] converter = "convert_tiff_to_png" -> {<<"tiff">>, <<"tif">>}
      [] OTHER -> {}

\* C12 as stated: every accepted convert request has a non-empty extension
\* allowlist, every file saved in its upload directory has a source extension
\* of its conversion, and the entries with another extension are each in
\* errors as invalid-extension and in nothing else.
C12_Allowlist ==
    \A w \in Workers :
        IsConvert(w) /\ "accepted_exts" \in DOMAIN req[w] =>
            LET r == req[w]
            IN  /\ r.accepted_exts # <<>>
                /\ \A f \in DOMAIN files :
                     Parent(f) = Append(UPLOAD_DIR, r.session_id)
                       => FileExt(f[Len(f)]) \in SourceExtensions(r.converter)
                /\ \A k \in DOMAIN r.errors :
                     FileExt(r.errors[k].filename) \notin SourceExtensions(r.converter)
                       => r.errors[k].kind = "invalid_extension"
                /\ \A k \in DOMAIN r.results :
                     FileExt(r.results[k].original_name) \in SourceExtensions(r.converter)

(* ====================== the claims, under SpecZip ===================== *)

\* C14 as stated: with two download-all requests for one session under way at
\* once, each request that found the session's directory answers 200 with a
\* complete archive whose entries are the files it listed in the directory -
\* never an archive file the other request has truncated and not yet closed.
C14_CompleteArchives ==
    \A w \in Workers :
        IsDownloadAll(w) /\ req[w].pc = "done" /\ req[w].code # 404 =>
            /\ req[w].code = 200
            /\ req[w].body.complete
            /\ req[w].body.entries = req[w].built

====
